---- MODULE Spec2Model ----
(***************************************************************************)
(* State-machine model of the X300 stream/IO control plane                 *)
(* (host/lib/usrp/x300/x300_io_impl.cpp): subdevice-spec configuration,    *)
(* streamer rate propagation and the post-streamer DAC synchronisation.    *)
(***************************************************************************)
EXTENDS Integers, Sequences, FiniteSets, TLC

(***************************************************************************)
(* Bounds                                                                  *)
(***************************************************************************)
\* number of update_subdev_spec calls in one behaviour
MaxCalls == 2
\* entries one streamer dictionary may hold
MaxStreamers == 2
\* number of streamer-side steps (registrations, scaling changes, rate
\* updates, hooks) in one behaviour
MaxSteps == 3

(***************************************************************************)
(* The device                                                              *)
(***************************************************************************)
\* the motherboards of the device, the indices of _mb
MbIdx == {0, 1}
\* _mb.size()
NumMb == Cardinality(MbIdx)
\* the radios of one motherboard, the indices of radio_perifs
RadioIdx == {0, 1}
Dirs == {"tx", "rx"}
\* the lengths of the subdev specs a caller passes
SpecLens == 0 .. 3

(***************************************************************************)
(* The property tree and the daughterboard slots                           *)
(***************************************************************************)
\* daughterboard names a caller may put into a spec; "C" names no slot
DbInputs == {"A", "B", "C"}
SdInputs == {"0"}

\* x300_impl::mboard_members_t::get_radio_index: slot A is radio 0, slot B radio 1
get_radio_index(db_name) == IF db_name = "A" THEN 0 ELSE 1

\* the frontends present in the tree: both slots carry an RX and a TX
\* frontend "0", except that slot B of the odd motherboards has no TX frontend
FrontendExists(tx_rx, mb_i, db_name, sd_name) ==
    /\ db_name \in {"A", "B"}
    /\ sd_name = "0"
    /\ ~(tx_rx = "tx" /\ db_name = "B" /\ mb_i % 2 = 1)

ConnOf(k) ==
    CASE k % 4 = 0 -> "IQ"
      [] k % 4 = 1 -> "QI"
      [] k % 4 = 2 -> "I"
      [] OTHER     -> "Q"

\* the "connection" string the tree holds for a frontend
Connection(tx_rx, mb_i, db_name, sd_name) ==
    ConnOf(2 * mb_i + get_radio_index(db_name))

SpecEntries == [db_name : DbInputs, sd_name : SdInputs]
SubdevSpecs == UNION {[1 .. n -> SpecEntries] : n \in SpecLens}

(***************************************************************************)
(* State                                                                   *)
(***************************************************************************)
VARIABLES
    mb,            \* _mb: per motherboard, radio_perifs[r] (muxes, DDC, DUC)
    tree,          \* _tree: the persisted <dir>_chan_dsp_mapping per motherboard
    rx_streamers,  \* _rx_streamers: uhd::dict of block id -> weak RX streamer
    tx_streamers,  \* _tx_streamers: uhd::dict of block id -> weak TX streamer
    ncalls,        \* number of update_subdev_spec calls made
    nsteps,        \* number of streamer-side steps made
    cfg_last,      \* the last update_subdev_spec call and what it did
    rate_last,     \* the last update_*_rate call and what it did
    sync_last,     \* the last post_streamer_hooks call and what it did
    mb_args,       \* _mb[m].recv_args, .send_args, .xport_path
    platform,      \* the UHD_PLATFORM_* family the library was built for
    hints_last,    \* the last get_rx_hints / get_tx_hints call and its result
    module_paths,  \* what uhd::get_module_paths() names in the filesystem
    module_d_paths,\* what uhd::get_module_d_paths() names in the filesystem
    load_last,     \* what the static block load_modules did
    objects,       \* the streamer objects behind the weak pointers, at the
                   \* grain of one shared_ptr operation
    thread,        \* where the thread inside a handler stands
    use_last       \* the last member call made through a locked pointer

cfg_vars == <<mb, tree, ncalls, cfg_last>>
stream_vars == <<rx_streamers, tx_streamers, nsteps, rate_last, sync_last>>
hint_vars == <<mb_args, platform, hints_last>>
module_vars == <<module_paths, module_d_paths, load_last>>
conc_vars == <<objects, thread, use_last>>
other_vars == <<hint_vars, module_vars, conc_vars>>
vars == <<mb, tree, rx_streamers, tx_streamers, ncalls, nsteps,
          cfg_last, rate_last, sync_last, other_vars>>

NoMux == <<>>

\* the scaling adjustments a DDC or a DUC may report
AdjValues == {6, 7}

InitPerif ==
    [ddc_mux |-> NoMux, rx_fe_mux |-> NoMux, tx_fe_mux |-> NoMux,
     ddc_adj |-> 6, duc_adj |-> 6]

CfgNone ==
    [op |-> "none", tx_rx |-> "rx", mb_i |-> 0, spec |-> <<>>, fail |-> <<>>,
     result |-> "none", check |-> "none", calls |-> <<>>,
     pre_mb |-> <<>>, pre_tree |-> <<>>]

CfgInit ==
    /\ mb = [m \in MbIdx |-> [radio_perifs |-> [r \in RadioIdx |-> InitPerif]]]
    /\ tree = [k \in Dirs \X MbIdx |-> <<>>]
    /\ ncalls = 0
    /\ cfg_last = CfgNone

(***************************************************************************)
(* update_subdev_spec                                                      *)
(***************************************************************************)
\* validate_subdev_spec: every named frontend exists for the direction
validate_subdev_spec(spec, tx_rx, mb_i) ==
    \A i \in 1 .. Len(spec) :
        FrontendExists(tx_rx, mb_i, spec[i].db_name, spec[i].sd_name)

SingleNameOk_onlyA(spec) == spec[1].db_name = "A"

\* the assertion on a spec of one entry
SingleNameOk(spec) == spec[1].db_name = "A" \/ spec[1].db_name = "B"

PairingOk_sameSlot(spec) ==
    /\ spec[1].db_name \in {"A", "B"}
    /\ spec[2].db_name \in {"A", "B"}

\* the assertion on a spec of two entries
PairingOk(spec) ==
    \/ (spec[1].db_name = "A" /\ spec[2].db_name = "B")
    \/ (spec[1].db_name = "B" /\ spec[2].db_name = "A")

Validate_noSizeCheck(tx_rx, mb_i, spec) ==
    IF ~(tx_rx = "tx" \/ tx_rx = "rx") THEN "direction"
    ELSE IF ~(mb_i < NumMb) THEN "mb_range"
    ELSE IF ~validate_subdev_spec(spec, tx_rx, mb_i) THEN "compat"
    ELSE IF Len(spec) = 1 /\ ~SingleNameOk(spec) THEN "name"
    ELSE IF Len(spec) = 2 /\ ~PairingOk(spec) THEN "pairing"
    ELSE "ok"

\* the checks that precede the mux loop, in the order the code makes them;
\* the value names the first check that fails
Validate(tx_rx, mb_i, spec) ==
    IF ~(tx_rx = "tx" \/ tx_rx = "rx") THEN "direction"
    ELSE IF ~(mb_i < NumMb) THEN "mb_range"
    ELSE IF ~validate_subdev_spec(spec, tx_rx, mb_i) THEN "compat"
    ELSE IF ~(Len(spec) <= 2) THEN "size"
    ELSE IF Len(spec) = 1 /\ ~SingleNameOk(spec) THEN "name"
    ELSE IF Len(spec) = 2 /\ ~PairingOk(spec) THEN "pairing"
    ELSE "ok"

\* the exception a failed check throws
ErrorOf(check) == IF check = "compat" THEN "value_error" ELSE "assertion_error"

FeSwapped_onlyQI(conn) == conn = "QI"

\* const bool fe_swapped = (conn == "QI" or conn == "Q")
FeSwapped(conn) == conn = "QI" \/ conn = "Q"

\* the hardware accesses of one loop iteration, in order
EntrySteps(tx_rx) ==
    IF tx_rx = "tx" THEN <<"connection", "tx_fe">>
    ELSE <<"connection", "ddc", "rx_fe">>

\* where a hardware access may throw: nowhere, or at step s of entry i
FailPoints(tx_rx, spec) ==
    {<<>>} \cup {<<i, s>> : i \in 1 .. Len(spec),
                           s \in {EntrySteps(tx_rx)[j] : j \in 1 .. Len(EntrySteps(tx_rx))}}

Fails(fail, i, s) == fail = <<i, s>>

MuxCall(mb_i, radio_idx, unit, args) ==
    [mb_i |-> mb_i, radio |-> radio_idx, unit |-> unit, args |-> args]

\* ddc->set_mux(conn, fe_swapped); rx_fe->set_mux(fe_swapped)
RxMuxCalls(mb_i, radio_idx, conn) ==
    <<MuxCall(mb_i, radio_idx, "ddc", <<conn, FeSwapped(conn)>>),
      MuxCall(mb_i, radio_idx, "rx_fe", <<FeSwapped(conn)>>)>>

\* tx_fe->set_mux(conn)
TxMuxCalls(mb_i, radio_idx, conn) ==
    <<MuxCall(mb_i, radio_idx, "tx_fe", <<conn>>)>>

\* the set_mux calls one loop iteration wants to make
EntryCalls(tx_rx, mb_i, entry) ==
    LET radio_idx == get_radio_index(entry.db_name)
        conn == Connection(tx_rx, mb_i, entry.db_name, entry.sd_name)
    IN  IF tx_rx = "tx" THEN TxMuxCalls(mb_i, radio_idx, conn)
        ELSE RxMuxCalls(mb_i, radio_idx, conn)

EntryCallsDone_ignoresThrow(tx_rx, mb_i, spec, i, fail) ==
    EntryCalls(tx_rx, mb_i, spec[i])

\* the calls of iteration i that complete when the access at `fail` throws
EntryCallsDone(tx_rx, mb_i, spec, i, fail) ==
    LET calls == EntryCalls(tx_rx, mb_i, spec[i])
    IN  IF Fails(fail, i, "connection") THEN <<>>
        ELSE IF Fails(fail, i, "tx_fe") \/ Fails(fail, i, "ddc") THEN <<>>
        ELSE IF Fails(fail, i, "rx_fe") THEN <<calls[1]>>
        ELSE calls

RECURSIVE LoopCalls(_, _, _, _, _)
\* the set_mux calls completed by the loop from entry i on
LoopCalls(tx_rx, mb_i, spec, i, fail) ==
    IF i > Len(spec) THEN <<>>
    ELSE IF fail # <<>> /\ fail[1] = i
         THEN EntryCallsDone(tx_rx, mb_i, spec, i, fail)
         ELSE EntryCalls(tx_rx, mb_i, spec[i])
                  \o LoopCalls(tx_rx, mb_i, spec, i + 1, fail)

ApplyCall_everyRadio(perifs_mb, c) ==
    LET field == CASE c.unit = "ddc"   -> "ddc_mux"
                   [] c.unit = "rx_fe" -> "rx_fe_mux"
                   [] OTHER            -> "tx_fe_mux"
    IN  [perifs_mb EXCEPT ![c.mb_i].radio_perifs =
            [r \in RadioIdx |-> [@[r] EXCEPT ![field] = c.args]]]

\* one set_mux call applied to the mux registers
ApplyCall(perifs_mb, c) ==
    LET field == CASE c.unit = "ddc"   -> "ddc_mux"
                   [] c.unit = "rx_fe" -> "rx_fe_mux"
                   [] OTHER            -> "tx_fe_mux"
    IN  [perifs_mb EXCEPT ![c.mb_i].radio_perifs[c.radio][field] = c.args]

RECURSIVE ApplyCalls(_, _)
ApplyCalls(perifs_mb, calls) ==
    IF calls = <<>> THEN perifs_mb
    ELSE ApplyCalls(ApplyCall(perifs_mb, Head(calls)), Tail(calls))

ChanToDspMap_zeros(spec) == [i \in 1 .. Len(spec) |-> 0]

\* chan_to_dsp_map[i] = _mb[mb_i].get_radio_index(spec[i].db_name)
ChanToDspMap(spec) == [i \in 1 .. Len(spec) |-> get_radio_index(spec[i].db_name)]

\* the whole call: the checks, the mux loop, the persisted mapping
update_subdev_spec(tx_rx, mb_i, spec, fail) ==
    LET check == Validate(tx_rx, mb_i, spec)
        calls == LoopCalls(tx_rx, mb_i, spec, 1, fail)
        base  == [op |-> "update_subdev_spec", tx_rx |-> tx_rx, mb_i |-> mb_i,
                  spec |-> spec, fail |-> fail, result |-> "ok", check |-> check,
                  calls |-> <<>>, pre_mb |-> mb, pre_tree |-> tree]
    IN  /\ ncalls < MaxCalls
        /\ ncalls' = ncalls + 1
        /\ UNCHANGED <<stream_vars, other_vars>>
        /\ IF check # "ok"
           THEN /\ fail = <<>>
                /\ cfg_last' = [base EXCEPT !.result = ErrorOf(check)]
                /\ UNCHANGED <<mb, tree>>
           ELSE /\ fail \in FailPoints(tx_rx, spec)
                /\ mb' = ApplyCalls(mb, calls)
                /\ IF fail = <<>>
                   THEN /\ tree' = [tree EXCEPT ![<<tx_rx, mb_i>>] = ChanToDspMap(spec)]
                        /\ cfg_last' = [base EXCEPT !.calls = calls]
                   ELSE /\ UNCHANGED tree
                        /\ cfg_last' = [base EXCEPT !.calls = calls,
                                                    !.result = "hw_error"]

\* the hardware failures a call can meet: none before the mux loop is reached
FailInputs(tx_rx, mb_i, spec) ==
    IF Validate(tx_rx, mb_i, spec) = "ok" THEN FailPoints(tx_rx, spec) ELSE {<<>>}

UpdateSubdevSpec ==
    \E tx_rx \in Dirs, mb_i \in 0 .. NumMb, spec \in SubdevSpecs :
        \E fail \in FailInputs(tx_rx, mb_i, spec) :
            update_subdev_spec(tx_rx, mb_i, spec, fail)

CfgNext == UpdateSubdevSpec

(***************************************************************************)
(* Streamer dictionaries                                                   *)
(***************************************************************************)
\* a block id string: "Radio_<count>" (prefixed = FALSE, which block_id_t
\* parses with device number 0) or "<dev>/Radio_<count>"; the streamers are
\* registered under "Radio_0", "Radio_1" and "<dev>/Radio_0"
BlockIds ==
    {[prefixed |-> FALSE, dev |-> 0, count |-> c] : c \in RadioIdx}
        \cup {[prefixed |-> TRUE, dev |-> d, count |-> 0] : d \in MbIdx}

\* rfnoc::block_id_t(block_id).get_device_no()
get_device_no(block_id) == block_id.dev

\* str(boost::format("Radio_%d") % dspno)
RadioBlockId(dspno) == [prefixed |-> FALSE, dev |-> 0, count |-> dspno]

\* uhd::dict keeps its entries in insertion order
has_key(d, k) == \E i \in DOMAIN d : d[i].key = k
IndexOf(d, k) == CHOOSE i \in DOMAIN d : d[i].key = k
DictGet(d, k) == d[IndexOf(d, k)].val
DictSet(d, k, v) ==
    IF has_key(d, k) THEN [d EXCEPT ![IndexOf(d, k)].val = v]
    ELSE Append(d, [key |-> k, val |-> v])

\* rates a caller passes to the update functions
Rates == {2, 3}
\* (tick rate, output sample rate) pairs a terminator may report
TermRates == {<<4, 5>>, <<5, 4>>}

\* the radio_ctrl blocks found downstream of a TX terminator
RadioBlock(d, c) == [dev |-> d, count |-> c]
TxGraphs ==
    {<<RadioBlock(0, 0)>>,
     <<RadioBlock(0, 0), RadioBlock(0, 1), RadioBlock(1, 0)>>,
     <<RadioBlock(1, 1), RadioBlock(1, 0)>>}

\* a freshly created recv_packet_streamer and its terminator
NewRxStreamer(term) ==
    [alive |-> TRUE, tick_rate |-> 1, samp_rate |-> 1, scale_factor |-> 1,
     term_tick_rate |-> term[1], term_samp_rate |-> term[2]]

\* a freshly created send_packet_streamer and the radios behind its terminator
NewTxStreamer(radios) ==
    [alive |-> TRUE, tick_rate |-> 1, samp_rate |-> 1, scale_factor |-> 1,
     radios |-> radios]

NoError == [type |-> "none", fmt |-> "", args |-> <<>>]

RateNone ==
    [op |-> "none", mb_index |-> 0, dspno |-> 0, rate |-> 0, adj |-> 0,
     calls |-> <<>>, pre_rx |-> <<>>, pre_tx |-> <<>>]

SyncNone ==
    [op |-> "none", is_tx |-> FALSE, failing |-> {}, locked |-> <<>>, syncs |-> <<>>,
     log |-> <<>>, error |-> NoError, pre_tx |-> <<>>]

StreamInit ==
    /\ rx_streamers = <<>>
    /\ tx_streamers = <<>>
    /\ nsteps = 0
    /\ rate_last = RateNone
    /\ sync_last = SyncNone

Step ==
    /\ nsteps < MaxSteps
    /\ nsteps' = nsteps + 1
    /\ UNCHANGED <<tree, ncalls, cfg_last, other_vars>>

(***************************************************************************)
(* The streamers' owners and the DSP chain (environment)                   *)
(***************************************************************************)
\* get_rx_stream stores a weak pointer to the new streamer under its block id
RegisterRx(key, term) ==
    /\ Step
    /\ has_key(rx_streamers, key) \/ Len(rx_streamers) < MaxStreamers
    /\ rx_streamers' = DictSet(rx_streamers, key, NewRxStreamer(term))
    /\ rate_last' = RateNone /\ sync_last' = SyncNone
    /\ UNCHANGED <<mb, tx_streamers>>

\* get_tx_stream stores a weak pointer to the new streamer under its block id
RegisterTx(key, radios) ==
    /\ Step
    /\ has_key(tx_streamers, key) \/ Len(tx_streamers) < MaxStreamers
    /\ tx_streamers' = DictSet(tx_streamers, key, NewTxStreamer(radios))
    /\ rate_last' = RateNone /\ sync_last' = SyncNone
    /\ UNCHANGED <<mb, rx_streamers>>

\* the owner releases the last shared pointer: the weak pointer expires
DropRx(i) ==
    /\ rx_streamers[i].val.alive
    /\ rx_streamers' = [rx_streamers EXCEPT ![i].val.alive = FALSE]
    /\ rate_last' = RateNone /\ sync_last' = SyncNone
    /\ UNCHANGED <<mb, tree, ncalls, cfg_last, nsteps, tx_streamers, other_vars>>

DropTx(i) ==
    /\ tx_streamers[i].val.alive
    /\ tx_streamers' = [tx_streamers EXCEPT ![i].val.alive = FALSE]
    /\ rate_last' = RateNone /\ sync_last' = SyncNone
    /\ UNCHANGED <<mb, tree, ncalls, cfg_last, nsteps, rx_streamers, other_vars>>

\* a decimation or interpolation change alters a scaling adjustment
SetScaling(m, r, field, v) ==
    /\ Step
    /\ mb[m].radio_perifs[r][field] # v
    /\ mb' = [mb EXCEPT ![m].radio_perifs[r][field] = v]
    /\ rate_last' = RateNone /\ sync_last' = SyncNone
    /\ UNCHANGED <<rx_streamers, tx_streamers>>

(***************************************************************************)
(* update_tick_rate, update_rx_samp_rate, update_tx_samp_rate              *)
(***************************************************************************)
SetterCall(dir, key, fn, arg) == [dir |-> dir, key |-> key, fn |-> fn, arg |-> arg]

RECURSIVE Flatten(_)
Flatten(ss) == IF ss = <<>> THEN <<>> ELSE Head(ss) \o Flatten(Tail(ss))

Lock_ignoreExpiry(streamer) == TRUE

\* weak_ptr::lock() yields a streamer only while an owner holds it
Lock(streamer) == streamer.alive

RxTickRefresh_keepOwn(streamer) == streamer

\* the RX branch: the terminator's tick rate and output sample rate are read
\* and set on the streamer
RxTickRefresh(streamer) ==
    [streamer EXCEPT !.tick_rate = streamer.term_tick_rate,
                     !.samp_rate = streamer.term_samp_rate]

RxTickCalls(key, streamer) ==
    <<SetterCall("rx", key, "set_tick_rate", streamer.term_tick_rate),
      SetterCall("rx", key, "set_samp_rate", streamer.term_samp_rate)>>

\* the TX branch: set_tick_rate(rate); set_samp_rate(rate)
TxTickUpdate(streamer, rate) ==
    [streamer EXCEPT !.tick_rate = rate, !.samp_rate = rate]

TxTickCalls(key, rate) ==
    <<SetterCall("tx", key, "set_tick_rate", rate),
      SetterCall("tx", key, "set_samp_rate", rate)>>

TickVisits_anyBoard(entry, mb_index) == entry.val.alive

\* one iteration of a loop of update_tick_rate: is the entry acted upon
TickVisits(entry, mb_index) ==
    get_device_no(entry.key) = mb_index /\ Lock(entry.val)

update_tick_rate(mb_index, rate) ==
    /\ Step
    /\ rx_streamers' =
           [i \in DOMAIN rx_streamers |->
               IF TickVisits(rx_streamers[i], mb_index)
               THEN [rx_streamers[i] EXCEPT !.val = RxTickRefresh(rx_streamers[i].val)]
               ELSE rx_streamers[i]]
    /\ tx_streamers' =
           [i \in DOMAIN tx_streamers |->
               IF TickVisits(tx_streamers[i], mb_index)
               THEN [tx_streamers[i] EXCEPT !.val = TxTickUpdate(tx_streamers[i].val, rate)]
               ELSE tx_streamers[i]]
    /\ rate_last' =
           [RateNone EXCEPT
               !.op = "update_tick_rate", !.mb_index = mb_index, !.rate = rate,
               !.pre_rx = rx_streamers, !.pre_tx = tx_streamers,
               !.calls =
                   Flatten([i \in DOMAIN rx_streamers |->
                               IF TickVisits(rx_streamers[i], mb_index)
                               THEN RxTickCalls(rx_streamers[i].key, rx_streamers[i].val)
                               ELSE <<>>])
                   \o Flatten([i \in DOMAIN tx_streamers |->
                               IF TickVisits(tx_streamers[i], mb_index)
                               THEN TxTickCalls(tx_streamers[i].key, rate)
                               ELSE <<>>])]
    /\ sync_last' = SyncNone
    /\ UNCHANGED mb

RxScalingAdjustment_atConstruction(m, dspno) == InitPerif.ddc_adj

\* mb.radio_perifs[dspno].ddc->get_scaling_adjustment()
RxScalingAdjustment(m, dspno) == mb[m].radio_perifs[dspno].ddc_adj

\* mb.radio_perifs[dspno].duc->get_scaling_adjustment()
TxScalingAdjustment(m, dspno) == mb[m].radio_perifs[dspno].duc_adj

\* set_samp_rate(rate); set_scale_factor(adj)
SampRateUpdate(streamer, rate, adj) ==
    [streamer EXCEPT !.samp_rate = rate, !.scale_factor = adj]

SampRateCalls(dir, key, rate, adj) ==
    <<SetterCall(dir, key, "set_samp_rate", rate),
      SetterCall(dir, key, "set_scale_factor", adj)>>

\* has_key(radio_block_id) and the lock() of the weak pointer both succeed
SampRateVisits(d, key) == has_key(d, key) /\ Lock(DictGet(d, key))

update_rx_samp_rate(m, dspno, rate) ==
    LET radio_block_id == RadioBlockId(dspno)
        adj == RxScalingAdjustment(m, dspno)
        base == [RateNone EXCEPT
                    !.op = "update_rx_samp_rate", !.mb_index = m, !.dspno = dspno,
                    !.rate = rate, !.pre_rx = rx_streamers, !.pre_tx = tx_streamers]
    IN  /\ Step
        /\ IF SampRateVisits(rx_streamers, radio_block_id)
           THEN /\ rx_streamers' =
                       DictSet(rx_streamers, radio_block_id,
                               SampRateUpdate(DictGet(rx_streamers, radio_block_id), rate, adj))
                /\ rate_last' =
                       [base EXCEPT !.adj = adj,
                                    !.calls = SampRateCalls("rx", radio_block_id, rate, adj)]
           ELSE /\ UNCHANGED rx_streamers
                /\ rate_last' = base
        /\ sync_last' = SyncNone
        /\ UNCHANGED <<mb, tx_streamers>>

update_tx_samp_rate(m, dspno, rate) ==
    LET radio_block_id == RadioBlockId(dspno)
        adj == TxScalingAdjustment(m, dspno)
        base == [RateNone EXCEPT
                    !.op = "update_tx_samp_rate", !.mb_index = m, !.dspno = dspno,
                    !.rate = rate, !.pre_rx = rx_streamers, !.pre_tx = tx_streamers]
    IN  /\ Step
        /\ IF SampRateVisits(tx_streamers, radio_block_id)
           THEN /\ tx_streamers' =
                       DictSet(tx_streamers, radio_block_id,
                               SampRateUpdate(DictGet(tx_streamers, radio_block_id), rate, adj))
                /\ rate_last' =
                       [base EXCEPT !.adj = adj,
                                    !.calls = SampRateCalls("tx", radio_block_id, rate, adj)]
           ELSE /\ UNCHANGED tx_streamers
                /\ rate_last' = base
        /\ sync_last' = SyncNone
        /\ UNCHANGED <<mb, rx_streamers>>

RegisterRxStreamer == \E key \in BlockIds, term \in TermRates : RegisterRx(key, term)
DropRxStreamer == \E i \in DOMAIN rx_streamers : DropRx(i)
DropTxStreamer == \E i \in DOMAIN tx_streamers : DropTx(i)
ChangeScaling ==
    \E m \in MbIdx, r \in RadioIdx, field \in {"ddc_adj", "duc_adj"}, v \in AdjValues :
        SetScaling(m, r, field, v)
UpdateTickRate == \E mb_index \in MbIdx, rate \in Rates : update_tick_rate(mb_index, rate)
UpdateRxSampRate ==
    \E m \in MbIdx, dspno \in RadioIdx, rate \in Rates : update_rx_samp_rate(m, dspno, rate)
UpdateTxSampRate ==
    \E m \in MbIdx, dspno \in RadioIdx, rate \in Rates : update_tx_samp_rate(m, dspno, rate)

(***************************************************************************)
(* post_streamer_hooks                                                     *)
(***************************************************************************)
\* a boost::format text with the arguments fed into it
StrArg(str) == [kind |-> "str", str |-> str, num |-> 0]
NumArg(num) == [kind |-> "num", str |-> "", num |-> num]

\* the what() texts of the io_error that synchronize_dacs may throw
SyncCauses == {"DAC sync timed out"}

\* UHD_MSG(status) << "[X300] syncing " << radios.size() << " radios "
StatusMsg(radios) == [fmt |-> "[X300] syncing %d radios ", args |-> <<NumArg(Len(radios))>>]

SyncError_rethrown(cause) ==
    [type |-> "io_error", fmt |-> "%s", args |-> <<StrArg(cause)>>]

\* throw uhd::io_error(str(boost::format("Failed to sync DACs! %s ") % ex.what()))
SyncError(cause) ==
    [type |-> "io_error", fmt |-> "Failed to sync DACs! %s ", args |-> <<StrArg(cause)>>]

RadioGroup_sameBoard(streamer) ==
    SelectSeq([j \in DOMAIN streamer.radios |->
                  <<streamer.radios[j].dev, streamer.radios[j].count>>],
              LAMBDA r : r[1] = streamer.radios[1].dev)

\* the radios vector: one &_mb[device_no].radio_perifs[block_count] per
\* radio_ctrl block found downstream of the streamer's terminator
RadioGroup(streamer) ==
    [j \in DOMAIN streamer.radios |->
        <<streamer.radios[j].dev, streamer.radios[j].count>>]

SyncThrows_swallowed(i, failing) == FALSE

\* synchronize_dacs(radios) throws for the group of the streamer at position i
SyncThrows(i, failing) == i \in failing

RECURSIVE SyncLoop(_, _, _)
\* the loop over _tx_streamers.vals() from position i on; the throw in the
\* catch block leaves the loop. locked lists the positions whose weak
\* pointer the loop has called lock() on.
SyncLoop(i, failing, cause) ==
    IF i > Len(tx_streamers)
    THEN [locked |-> <<>>, syncs |-> <<>>, log |-> <<>>, error |-> NoError]
    ELSE IF ~Lock(tx_streamers[i].val)
    THEN LET rest == SyncLoop(i + 1, failing, cause)
         IN  [rest EXCEPT !.locked = <<i>> \o rest.locked]
    ELSE LET radios == RadioGroup(tx_streamers[i].val)
             this == [pos |-> i, key |-> tx_streamers[i].key, radios |-> radios]
         IN  IF SyncThrows(i, failing)
             THEN [locked |-> <<i>>, syncs |-> <<this>>, log |-> <<StatusMsg(radios)>>,
                   error |-> SyncError(cause)]
             ELSE LET rest == SyncLoop(i + 1, failing, cause)
                  IN  [locked |-> <<i>> \o rest.locked,
                       syncs |-> <<this>> \o rest.syncs,
                       log |-> <<StatusMsg(radios)>> \o rest.log,
                       error |-> rest.error]

ReturnsEarly_never(is_tx) == FALSE

\* if (not is_tx) return;
ReturnsEarly(is_tx) == ~is_tx

post_streamer_hooks(is_tx, failing, cause) ==
    LET base == [SyncNone EXCEPT !.op = "post_streamer_hooks", !.is_tx = is_tx,
                                 !.failing = failing, !.pre_tx = tx_streamers]
        done == SyncLoop(1, failing, cause)
    IN  /\ Step
        /\ IF ReturnsEarly(is_tx)
           THEN sync_last' = base
           ELSE sync_last' = [base EXCEPT !.locked = done.locked,
                                          !.syncs = done.syncs, !.log = done.log,
                                          !.error = done.error]
        /\ rate_last' = RateNone
        /\ UNCHANGED <<mb, rx_streamers, tx_streamers>>

LivePositions(d) == {i \in DOMAIN d : d[i].val.alive}

RegisterTxGraph == \E key \in BlockIds, radios \in TxGraphs : RegisterTx(key, radios)
PostStreamerHooks ==
    \E is_tx \in BOOLEAN, failing \in SUBSET LivePositions(tx_streamers), cause \in SyncCauses :
        post_streamer_hooks(is_tx, failing, cause)

StreamsNext ==
    \/ RegisterRxStreamer
    \/ RegisterTxGraph
    \/ DropRxStreamer
    \/ DropTxStreamer
    \/ ChangeScaling
    \/ UpdateTickRate
    \/ UpdateRxSampRate
    \/ UpdateTxSampRate
    \/ PostStreamerHooks

(***************************************************************************)
(* Hooks for get_tx_stream() and get_rx_stream(): the transport hints      *)
(***************************************************************************)
\* the keys a device_addr_t of stream arguments may hold, and its values
HintKeys == {"recv_buff_size", "recv_frame_size"}
SendKeys == {"send_frame_size"}
DeviceAddrs(keys) == UNION {[K -> {"4096"}] : K \in SUBSET keys}

\* _mb[m].xport_path
XportPaths == {"nirio", "eth"}

\* the two branches of the #if / #elif of get_rx_hints
Platforms == {"MACOS_BSD", "LINUX_WIN32"}

MbArgs == [recv_args : DeviceAddrs(HintKeys), send_args : DeviceAddrs(SendKeys),
           xport_path : XportPaths]

HintsNone == [op |-> "none", mb_index |-> 0, result |-> <<>>, pre_args |-> <<>>]

\* the arguments of a device made without stream arguments over ethernet
HintsDefault ==
    /\ mb_args = [m \in MbIdx |-> [recv_args |-> <<>>, send_args |-> <<>>,
                                   xport_path |-> "eth"]]
    /\ platform = "LINUX_WIN32"
    /\ hints_last = HintsNone

\* the arguments every device address and build can leave in _mb
HintsInit ==
    /\ mb_args \in [MbIdx -> MbArgs]
    /\ platform \in Platforms
    /\ hints_last = HintsNone

\* boost::lexical_cast<std::string>(X300_RX_SW_BUFF_SIZE_ETH[_MACOS])
RxBuffDefault(os) ==
    IF os = "MACOS_BSD" THEN "X300_RX_SW_BUFF_SIZE_ETH_MACOS"
    ELSE "X300_RX_SW_BUFF_SIZE_ETH"

InjectsDefault_anyTransport(args) == "recv_buff_size" \notin DOMAIN args.recv_args

\* not rx_hints.has_key("recv_buff_size") and xport_path != "nirio"
InjectsDefault(args) ==
    /\ "recv_buff_size" \notin DOMAIN args.recv_args
    /\ args.xport_path # "nirio"

\* the copy of recv_args the function returns
RxHints(args, os) ==
    IF InjectsDefault(args)
    THEN [k \in DOMAIN args.recv_args \cup {"recv_buff_size"} |->
             IF k = "recv_buff_size" THEN RxBuffDefault(os) ELSE args.recv_args[k]]
    ELSE args.recv_args

get_rx_hints(mb_index) ==
    /\ hints_last' = [op |-> "get_rx_hints", mb_index |-> mb_index,
                      result |-> RxHints(mb_args[mb_index], platform),
                      pre_args |-> mb_args]
    /\ UNCHANGED <<mb_args, platform, cfg_vars, stream_vars, module_vars, conc_vars>>

get_tx_hints(mb_index) ==
    /\ hints_last' = [op |-> "get_tx_hints", mb_index |-> mb_index,
                      result |-> mb_args[mb_index].send_args,
                      pre_args |-> mb_args]
    /\ UNCHANGED <<mb_args, platform, cfg_vars, stream_vars, module_vars, conc_vars>>

GetRxHints == \E mb_index \in MbIdx : get_rx_hints(mb_index)
GetTxHints == \E mb_index \in MbIdx : get_tx_hints(mb_index)

HintsNext == GetRxHints \/ GetTxHints

(***************************************************************************)
(* load_modules.cpp: the module paths and the static block                 *)
(***************************************************************************)
\* what a path names: nothing, a file (ok: dlopen / LoadLibrary succeeds on
\* it) or a directory (ok: a directory_iterator can be opened on it)
MissingPath == [kind |-> "missing", ok |-> FALSE, children |-> <<>>]
ModuleFiles == {[kind |-> "file", ok |-> b, children |-> <<>>] : b \in BOOLEAN}
DirsOf(nodes, lens) ==
    {[kind |-> "dir", ok |-> FALSE, children |-> <<>>]}
        \cup {[kind |-> "dir", ok |-> TRUE, children |-> c] :
                 c \in UNION {[1 .. n -> nodes] : n \in lens}}
SubDirs == DirsOf(ModuleFiles, 0 .. 1)
PathNodes == {MissingPath} \cup ModuleFiles \cup DirsOf(ModuleFiles \cup SubDirs, 0 .. 2)
ModulePaths == UNION {[1 .. n -> PathNodes] : n \in 1 .. 2}

\* the lines of a file of a module.d directory
ModuleLines == {<<>>, <<"#", "ok.so">>, <<"", "bad.so", "ok.so">>}
ModuleDFiles == [regular : BOOLEAN, lines : ModuleLines]
ModuleDNodes ==
    {[kind |-> "missing", ok |-> FALSE, files |-> <<>>],
     [kind |-> "dir", ok |-> FALSE, files |-> <<>>],
     [kind |-> "dir", ok |-> TRUE, files |-> <<>>]}
        \cup {[kind |-> "dir", ok |-> TRUE, files |-> <<f>>] : f \in ModuleDFiles}
ModuleDPaths == [1 .. 1 -> ModuleDNodes]

LoadNone == [calls |-> <<>>, cerr |-> <<>>, thrown |-> "none"]

StaticNone == [op |-> "none", path_results |-> <<>>, d_calls |-> <<>>, thrown |-> "none"]

ModulesDefault ==
    /\ module_paths = <<MissingPath>>
    /\ module_d_paths = <<[kind |-> "missing", ok |-> FALSE, files |-> <<>>]>>
    /\ load_last = StaticNone

ModulesInit ==
    /\ module_paths \in ModulePaths
    /\ module_d_paths \in ModuleDPaths
    /\ load_last = StaticNone

\* load_module(file_name): dlopen / LoadLibrary returns NULL, or the dummy
LoadModuleThrows(node) == ~node.ok

\* fs::directory_iterator dir_itr(path) throws filesystem_error when the
\* directory cannot be opened
OpenDirThrows(node) == ~node.ok

RECURSIVE load_module_path(_, _)
RECURSIVE DirLoop(_, _, _)
\* the loop over the entries of a directory from entry i on; an exception
\* that leaves a recursive call leaves the loop
DirLoop(node, path, i) ==
    IF i > Len(node.children) THEN LoadNone
    ELSE LET first == load_module_path(node.children[i], Append(path, i))
         IN  IF first.thrown # "none" THEN first
             ELSE LET rest == DirLoop(node, path, i + 1)
                  IN  [calls |-> first.calls \o rest.calls,
                       cerr |-> first.cerr \o rest.cerr,
                       thrown |-> rest.thrown]

\* calls: the files load_module was called on; cerr: the files whose error
\* was printed; thrown: the exception that leaves the function
load_module_path(node, path) ==
    IF node.kind = "missing" THEN LoadNone
    ELSE IF node.kind = "dir"
    THEN IF OpenDirThrows(node)
         THEN [LoadNone EXCEPT !.thrown = "filesystem_error"]
         ELSE DirLoop(node, path, 1)
    ELSE [calls |-> <<path>>,
          cerr |-> IF LoadModuleThrows(node) THEN <<path>> ELSE <<>>,
          thrown |-> "none"]

RECURSIVE PathsLoop(_, _)
\* for (path : get_module_paths()) load_module_path(path): the results of
\* the calls made, the last of which may have thrown
PathsLoop(paths, i) ==
    IF i > Len(paths) THEN <<>>
    ELSE LET this == load_module_path(paths[i], <<i>>)
         IN  IF this.thrown # "none" THEN <<this>>
             ELSE <<this>> \o PathsLoop(paths, i + 1)

\* if (line.empty() or line[0] == '#') continue;
SkipsLine(line) == line = "" \/ line = "#"

RECURSIVE LinesLoop(_, _)
\* while (std::getline(file, line)): load_module(line) is not guarded
LinesLoop(lines, i) ==
    IF i > Len(lines) THEN [calls |-> <<>>, thrown |-> "none"]
    ELSE IF SkipsLine(lines[i]) THEN LinesLoop(lines, i + 1)
    ELSE IF lines[i] = "bad.so" THEN [calls |-> <<lines[i]>>, thrown |-> "os_error"]
    ELSE LET rest == LinesLoop(lines, i + 1)
         IN  [calls |-> <<lines[i]>> \o rest.calls, thrown |-> rest.thrown]

RECURSIVE load_module_d_path(_, _)
\* the loop over the files of a module.d directory from file i on
load_module_d_path(node, i) ==
    IF ~node.ok THEN [calls |-> <<>>, thrown |-> "filesystem_error"]
    ELSE IF i > Len(node.files) THEN [calls |-> <<>>, thrown |-> "none"]
    ELSE IF ~node.files[i].regular THEN load_module_d_path(node, i + 1)
    ELSE LET this == LinesLoop(node.files[i].lines, 1)
         IN  IF this.thrown # "none" THEN this
             ELSE LET rest == load_module_d_path(node, i + 1)
                  IN  [calls |-> this.calls \o rest.calls, thrown |-> rest.thrown]

RECURSIVE DPathsLoop(_, _)
\* for (path : get_module_d_paths()) if (fs::is_directory(path)) ...
DPathsLoop(paths, i) ==
    IF i > Len(paths) THEN [calls |-> <<>>, thrown |-> "none"]
    ELSE IF paths[i].kind # "dir" THEN DPathsLoop(paths, i + 1)
    ELSE LET this == load_module_d_path(paths[i], 1)
         IN  IF this.thrown # "none" THEN this
             ELSE LET rest == DPathsLoop(paths, i + 1)
                  IN  [calls |-> this.calls \o rest.calls, thrown |-> rest.thrown]

\* UHD_STATIC_BLOCK(load_modules), run once when the library is loaded
load_modules ==
    LET results == PathsLoop(module_paths, 1)
        escaped == results[Len(results)].thrown
        d       == DPathsLoop(module_d_paths, 1)
    IN  /\ load_last.op = "none"
        /\ load_last' =
               IF escaped # "none"
               THEN [op |-> "load_modules", path_results |-> results,
                     d_calls |-> <<>>, thrown |-> escaped]
               ELSE [op |-> "load_modules", path_results |-> results,
                     d_calls |-> d.calls, thrown |-> d.thrown]
        /\ UNCHANGED <<module_paths, module_d_paths, cfg_vars, stream_vars, hint_vars,
                       conc_vars>>

ModulesNext == load_modules

(***************************************************************************)
(* The handlers against an owner that drops its streamer, step by step     *)
(***************************************************************************)
\* the handlers that lock a weak pointer; update_tick_rate has one loop per
\* dictionary, update_rx_samp_rate and update_tx_samp_rate have the same body
Handlers ==
    {"update_tick_rate_rx", "update_tick_rate_tx", "update_samp_rate",
     "post_streamer_hooks"}

\* the member calls a handler makes through my_streamer, in order
MemberCalls(op) ==
    CASE op = "update_tick_rate_rx" ->
             <<"get_tick_rate", "get_output_samp_rate", "set_tick_rate", "set_samp_rate">>
      [] op = "update_tick_rate_tx" -> <<"set_tick_rate", "set_samp_rate">>
      [] op = "update_samp_rate"    -> <<"set_samp_rate", "set_scale_factor">>
      [] OTHER                      -> <<"find_downstream_node">>

\* the handler walks the whole dictionary (samp rate: one has_key lookup)
IsLoop(op) == op # "update_samp_rate"

ThreadIdle == [op |-> "none", pc |-> "idle", pos |-> 0, held |-> FALSE, step |-> 0]

UseNone == [op |-> "none", pos |-> 0, call |-> "none", owned |-> TRUE, destroyed |-> FALSE]

ConcInit ==
    /\ objects = <<>>
    /\ thread = ThreadIdle
    /\ use_last = UseNone

ConcFrame == UNCHANGED <<cfg_vars, stream_vars, hint_vars, module_vars>>

Expires_ownerOnly(owner, held) == ~owner

\* a streamer object is destroyed when no shared_ptr to it is left: neither
\* the owner's nor the my_streamer a handler got from lock()
Expires(owner, held) == ~owner /\ ~held

\* get_rx_stream / get_tx_stream hands a new streamer to its owner and
\* stores a weak pointer to it
MakeStreamer ==
    /\ thread.pc = "idle"
    /\ Len(objects) < MaxStreamers
    /\ objects' = Append(objects, [owner |-> TRUE, destroyed |-> FALSE])
    /\ UNCHANGED <<thread, use_last>>
    /\ ConcFrame

\* the owner resets its shared_ptr, at any moment
OwnerDrops(i) ==
    /\ objects[i].owner
    /\ objects' = [objects EXCEPT
                      ![i] = [owner |-> FALSE,
                              destroyed |-> Expires(FALSE, thread.held /\ thread.pos = i)]]
    /\ UNCHANGED <<thread, use_last>>
    /\ ConcFrame

\* a handler is entered and reaches its first lock()
Enter(op, target) ==
    /\ thread.pc = "idle"
    /\ target \in DOMAIN objects
    /\ thread' = [op |-> op, pc |-> "lock", pos |-> IF IsLoop(op) THEN 1 ELSE target,
                  held |-> FALSE, step |-> 0]
    /\ UNCHANGED <<objects, use_last>>
    /\ ConcFrame

\* the thread after the iteration at thread.pos: the next entry, or return
Advance(leaves) ==
    IF IsLoop(thread.op) /\ thread.pos < Len(objects) /\ ~leaves
    THEN [thread EXCEPT !.pc = "lock", !.pos = thread.pos + 1, !.held = FALSE, !.step = 0]
    ELSE ThreadIdle

\* my_streamer = dynamic_pointer_cast<...>(weak.lock()): null when expired
LockStep ==
    /\ thread.pc = "lock"
    /\ thread' = IF objects[thread.pos].destroyed THEN Advance(FALSE)
                 ELSE [thread EXCEPT !.pc = "use", !.held = TRUE, !.step = 1]
    /\ UNCHANGED <<objects, use_last>>
    /\ ConcFrame

\* my_streamer->...: one member call on the object
UseStep ==
    /\ thread.pc = "use"
    /\ use_last' = [op |-> thread.op, pos |-> thread.pos,
                    call |-> MemberCalls(thread.op)[thread.step],
                    owned |-> objects[thread.pos].owner,
                    destroyed |-> objects[thread.pos].destroyed]
    /\ thread' = IF thread.step < Len(MemberCalls(thread.op))
                 THEN [thread EXCEPT !.step = thread.step + 1]
                 ELSE [thread EXCEPT !.pc = "release"]
    /\ UNCHANGED objects
    /\ ConcFrame

\* my_streamer goes out of scope, at the end of the iteration or when an
\* exception of synchronize_dacs unwinds the hook
ReleaseStep(throws) ==
    /\ thread.pc = "release"
    /\ throws => thread.op = "post_streamer_hooks"
    /\ objects' = [objects EXCEPT
                      ![thread.pos].destroyed = @ \/ Expires(objects[thread.pos].owner, FALSE)]
    /\ thread' = Advance(throws)
    /\ UNCHANGED use_last
    /\ ConcFrame

OwnerDropsStreamer == \E i \in DOMAIN objects : OwnerDrops(i)
EnterHandler == \E op \in Handlers, target \in DOMAIN objects : Enter(op, target)
LeaveScope == \E throws \in BOOLEAN : ReleaseStep(throws)

ConcNext ==
    \/ MakeStreamer
    \/ OwnerDropsStreamer
    \/ EnterHandler
    \/ LockStep
    \/ UseStep
    \/ LeaveScope

(***************************************************************************)
(* Specifications                                                          *)
(***************************************************************************)
Init == CfgInit /\ StreamInit /\ HintsDefault /\ ModulesDefault /\ ConcInit

Next == CfgNext \/ StreamsNext \/ HintsNext \/ ModulesNext \/ ConcNext

Spec == Init /\ [][Next]_vars
SpecConfigure == Init /\ [][CfgNext]_vars
SpecStreams == Init /\ [][StreamsNext]_vars
\* the devices every device address and build can make
InitHints == CfgInit /\ StreamInit /\ HintsInit /\ ModulesDefault /\ ConcInit
SpecHints == InitHints /\ [][HintsNext]_vars

\* the filesystems the library can be loaded in
InitModules == CfgInit /\ StreamInit /\ HintsDefault /\ ModulesInit /\ ConcInit
SpecModules == InitModules /\ [][ModulesNext]_vars

SpecConcurrent == Init /\ [][ConcNext]_vars

(***************************************************************************)
(* Properties of update_subdev_spec                                        *)
(***************************************************************************)
\* the error kinds the specification calls ConfigurationError
ConfigurationError == {"assertion_error", "value_error"}

CfgCalled == cfg_last.op = "update_subdev_spec"

NamesAreAB(spec) == {spec[1].db_name, spec[2].db_name} = {"A", "B"}

AllFrontendsExist(tx_rx, mb_i, spec) ==
    \A i \in 1 .. Len(spec) :
        FrontendExists(tx_rx, mb_i, spec[i].db_name, spec[i].sd_name)

\* C1 as stated: a spec of length 2 is configured successfully if and only if
\* its daughterboard names are A and B in some order, and any other pairing
\* fails with a ConfigurationError and programs no mux.
C1_Original ==
    (CfgCalled /\ Len(cfg_last.spec) = 2) =>
        /\ (cfg_last.result = "ok") <=> NamesAreAB(cfg_last.spec)
        /\ ~NamesAreAB(cfg_last.spec) =>
               (cfg_last.result \in ConfigurationError /\ cfg_last.calls = <<>>)

\* C1 amended: for a spec of length 2, success implies the names are A and B
\* in some order; with the motherboard index in range, every named frontend
\* present and no hardware access failing, names A and B in some order imply
\* success; any other pairing fails with a ConfigurationError, makes no mux
\* programming call and leaves every mux register as it was.
C1_PairingDecides ==
    (CfgCalled /\ Len(cfg_last.spec) = 2) =>
        /\ (cfg_last.result = "ok") => NamesAreAB(cfg_last.spec)
        /\ ( /\ NamesAreAB(cfg_last.spec)
             /\ cfg_last.mb_i < NumMb
             /\ AllFrontendsExist(cfg_last.tx_rx, cfg_last.mb_i, cfg_last.spec)
             /\ cfg_last.fail = <<>> ) => cfg_last.result = "ok"
        /\ ~NamesAreAB(cfg_last.spec) =>
               /\ cfg_last.result \in ConfigurationError
               /\ cfg_last.calls = <<>>
               /\ mb = cfg_last.pre_mb

\* a spec (A, A), whose frontends both exist, has just been rejected
C1_Witness ==
    /\ CfgCalled
    /\ Len(cfg_last.spec) = 2
    /\ cfg_last.spec[1].db_name = "A" /\ cfg_last.spec[2].db_name = "A"
    /\ cfg_last.check = "pairing"
    /\ cfg_last.result = "assertion_error"

\* C7: after a successful configure the persisted channel-to-DSP mapping of
\* (direction, motherboard) has one entry per spec entry, and entry i is the
\* radio index of the daughterboard named by spec entry i.
C7_MappingPersisted ==
    (CfgCalled /\ cfg_last.result = "ok") =>
        LET m == tree[<<cfg_last.tx_rx, cfg_last.mb_i>>]
        IN  /\ Len(m) = Len(cfg_last.spec)
            /\ \A i \in 1 .. Len(cfg_last.spec) :
                   m[i] = get_radio_index(cfg_last.spec[i].db_name)

\* the spec (B, A) has just been configured and its mapping is (1, 0)
C7_Witness ==
    /\ CfgCalled /\ cfg_last.result = "ok"
    /\ Len(cfg_last.spec) = 2
    /\ cfg_last.spec[1].db_name = "B"
    /\ tree[<<cfg_last.tx_rx, cfg_last.mb_i>>] = <<1, 0>>

\* C8: an RX configure programs, for every spec entry and in entry order, the
\* DDC mux of the entry's radio with (connection, fe_swapped) and then the RX
\* front-end of the same radio with fe_swapped, where fe_swapped holds exactly
\* for the connections QI and Q; a TX configure programs the TX front-end mux
\* of the entry's radio with the connection string and no DDC or RX front-end
\* mux. A call cut short by a hardware failure makes a prefix of these calls.
C8_MuxArguments ==
    CfgCalled =>
        LET c == cfg_last
            conn(i) == Connection(c.tx_rx, c.mb_i, c.spec[i].db_name, c.spec[i].sd_name)
            radio(i) == get_radio_index(c.spec[i].db_name)
            swapped(i) == conn(i) \in {"QI", "Q"}
            per == IF c.tx_rx = "rx" THEN 2 ELSE 1
        IN  /\ c.result = "ok" => Len(c.calls) = per * Len(c.spec)
            /\ Len(c.calls) <= per * Len(c.spec)
            /\ \A k \in 1 .. Len(c.calls) :
                   LET i == (k + per - 1) \div per
                   IN  /\ c.calls[k].mb_i = c.mb_i
                       /\ c.calls[k].radio = radio(i)
                       /\ IF c.tx_rx = "tx"
                          THEN /\ c.calls[k].unit = "tx_fe"
                               /\ c.calls[k].args = <<conn(i)>>
                          ELSE IF k % 2 = 1
                          THEN /\ c.calls[k].unit = "ddc"
                               /\ c.calls[k].args = <<conn(i), swapped(i)>>
                          ELSE /\ c.calls[k].unit = "rx_fe"
                               /\ c.calls[k].args = <<swapped(i)>>
            /\ c.result = "ok" =>
                   \A i \in 1 .. Len(c.spec) :
                       LET p == mb[c.mb_i].radio_perifs[radio(i)]
                       IN  IF c.tx_rx = "tx"
                           THEN p.tx_fe_mux = <<conn(i)>>
                           ELSE /\ p.ddc_mux = <<conn(i), swapped(i)>>
                                /\ p.rx_fe_mux = <<swapped(i)>>

\* an RX configure of (A, B) has programmed an unswapped and a swapped radio
C8_Witness ==
    /\ CfgCalled /\ cfg_last.result = "ok" /\ cfg_last.tx_rx = "rx"
    /\ Len(cfg_last.calls) = 4
    /\ cfg_last.calls[1].args = <<"I", FALSE>>
    /\ cfg_last.calls[2].args = <<FALSE>>
    /\ cfg_last.calls[3].args = <<"Q", TRUE>>
    /\ cfg_last.calls[4].args = <<TRUE>>

\* the calls a validation step must reject
C9_Invalid(c) ==
    \/ ~(c.mb_i < NumMb)
    \/ Len(c.spec) > 2
    \/ \E i \in 1 .. Len(c.spec) : c.spec[i].db_name \notin {"A", "B"}
    \/ (Len(c.spec) = 2 /\ ~NamesAreAB(c.spec))
    \/ ~AllFrontendsExist(c.tx_rx, c.mb_i, c.spec)

\* C9: a configure call that fails validation (motherboard index out of
\* range, spec longer than 2, bad daughterboard name or pairing, missing
\* frontend) raises a ConfigurationError, programs no mux and leaves every
\* mux register and every persisted mapping as before the call.
C9_ValidationFailureChangesNothing ==
    (CfgCalled /\ C9_Invalid(cfg_last)) =>
        /\ cfg_last.result \in ConfigurationError
        /\ cfg_last.calls = <<>>
        /\ mb = cfg_last.pre_mb
        /\ tree = cfg_last.pre_tree

\* a spec of three entries has been rejected after an earlier configure had
\* programmed muxes and persisted a mapping
C9_Witness ==
    /\ CfgCalled /\ cfg_last.check = "size"
    /\ Len(cfg_last.spec) = 3
    /\ \E k \in DOMAIN tree : tree[k] # <<>>
    /\ \E m \in MbIdx, r \in RadioIdx : mb[m].radio_perifs[r] # InitPerif

(***************************************************************************)
(* Properties of the rate updates and of post_streamer_hooks               *)
(***************************************************************************)
TickCalled == rate_last.op = "update_tick_rate"
HooksCalled == sync_last.op = "post_streamer_hooks"

\* the entries of a dictionary snapshot that hold a live streamer of a board
LiveOn(d, mb_index) == {i \in DOMAIN d : d[i].val.alive /\ d[i].key.dev = mb_index}

\* the setter calls of the last rate update that went to one streamer
CallsTo(dir, key) ==
    SelectSeq(rate_last.calls, LAMBDA c : c.dir = dir /\ c.key = key)

\* the live positions of a snapshot up to and including the first failing one
Attempted(d, failing) ==
    {i \in LivePositions(d) : \A j \in LivePositions(d) : j < i => j \notin failing}

\* C2 as stated: in post_stream_setup_hook(is_tx = true) every live TX
\* endpoint of the registry gets its DAC sync attempted, whichever endpoints'
\* syncs fail.
C2_Original ==
    (HooksCalled /\ sync_last.is_tx) =>
        \A i \in LivePositions(sync_last.pre_tx) :
            \E k \in DOMAIN sync_last.syncs : sync_last.syncs[k].pos = i

\* C2 amended: a DAC-sync failure for the group of one TX endpoint ends the
\* call with an io_error: the sync is attempted, in registry order, for the
\* live TX endpoints up to and including the first one whose sync fails, and
\* for no endpoint after it; with no failing sync every live endpoint is
\* attempted and no error is raised.
C2_FailureEndsDispatch ==
    (HooksCalled /\ sync_last.is_tx) =>
        /\ {sync_last.syncs[k].pos : k \in DOMAIN sync_last.syncs}
               = Attempted(sync_last.pre_tx, sync_last.failing)
        /\ \A k \in DOMAIN sync_last.syncs :
               k < Len(sync_last.syncs) => sync_last.syncs[k].pos < sync_last.syncs[k + 1].pos
        /\ (sync_last.error.type = "io_error") <=> (sync_last.failing # {})
        /\ (sync_last.error = NoError) <=> (sync_last.failing = {})

\* two live TX endpoints, the sync of the first fails, the second is not synced
C2_Witness ==
    /\ HooksCalled /\ sync_last.is_tx
    /\ LivePositions(sync_last.pre_tx) = {1, 2}
    /\ sync_last.failing = {1}
    /\ Len(sync_last.syncs) = 1 /\ sync_last.syncs[1].pos = 1
    /\ sync_last.error.type = "io_error"

DownstreamRadios(d, i) ==
    [j \in DOMAIN d[i].val.radios |-> <<d[i].val.radios[j].dev, d[i].val.radios[j].count>>]

SyncsOf(i) == {k \in DOMAIN sync_last.syncs : sync_last.syncs[k].pos = i}

\* C4 as stated: for each live TX endpoint the DAC-sync primitive is invoked
\* exactly once, with exactly the radios downstream of that endpoint.
C4_Original ==
    (HooksCalled /\ sync_last.is_tx) =>
        \A i \in LivePositions(sync_last.pre_tx) :
            /\ Cardinality(SyncsOf(i)) = 1
            /\ \A k \in SyncsOf(i) :
                   sync_last.syncs[k].radios = DownstreamRadios(sync_last.pre_tx, i)

\* C4 amended: for each live TX endpoint that the dispatch reaches (no sync
\* of an earlier endpoint failed in this call) the DAC-sync primitive is
\* invoked exactly once, with a group of exactly the (motherboard, radio)
\* pairs of the radio blocks downstream of that endpoint, also when they span
\* several motherboards; it is invoked for groups of no other shape.
C4_OneSyncPerReachedEndpoint ==
    (HooksCalled /\ sync_last.is_tx) =>
        /\ \A i \in Attempted(sync_last.pre_tx, sync_last.failing) :
               /\ Cardinality(SyncsOf(i)) = 1
               /\ \A k \in SyncsOf(i) :
                      sync_last.syncs[k].radios = DownstreamRadios(sync_last.pre_tx, i)
        /\ \A k \in DOMAIN sync_last.syncs :
               /\ sync_last.syncs[k].pos \in LivePositions(sync_last.pre_tx)
               /\ sync_last.syncs[k].radios
                      = DownstreamRadios(sync_last.pre_tx, sync_last.syncs[k].pos)

\* an endpoint with three radios on two motherboards was synced in one call
C4_Witness ==
    /\ HooksCalled /\ sync_last.is_tx /\ sync_last.error = NoError
    /\ \E k \in DOMAIN sync_last.syncs :
           /\ sync_last.syncs[k].radios = <<(<<0, 0>>), (<<0, 1>>), (<<1, 0>>)>>
           /\ Cardinality(SyncsOf(sync_last.syncs[k].pos)) = 1
    /\ Len(sync_last.syncs) = 2

\* C5 as stated: update_tick_rate(mb, r) leaves the tick rate and the sample
\* rate of every live RX endpoint of mb at the values they had before the
\* call and sets both rates of every live TX endpoint of mb to r.
C5_Original ==
    TickCalled =>
        /\ \A i \in LiveOn(rate_last.pre_rx, rate_last.mb_index) :
               /\ rx_streamers[i].val.tick_rate = rate_last.pre_rx[i].val.tick_rate
               /\ rx_streamers[i].val.samp_rate = rate_last.pre_rx[i].val.samp_rate
        /\ \A i \in LiveOn(rate_last.pre_tx, rate_last.mb_index) :
               /\ tx_streamers[i].val.tick_rate = rate_last.rate
               /\ tx_streamers[i].val.samp_rate = rate_last.rate

\* C5 amended: update_tick_rate(mb, r) sets the tick rate and the sample rate
\* of every live RX endpoint of mb to the tick rate and the output sample
\* rate that the endpoint's terminator reports at the time of the call (not
\* to r, and not necessarily to the values the endpoint held), and sets both
\* rates of every live TX endpoint of mb to r.
C5_RxFromTerminatorTxFromRate ==
    TickCalled =>
        /\ \A i \in LiveOn(rate_last.pre_rx, rate_last.mb_index) :
               /\ rx_streamers[i].val.tick_rate = rate_last.pre_rx[i].val.term_tick_rate
               /\ rx_streamers[i].val.samp_rate = rate_last.pre_rx[i].val.term_samp_rate
               /\ CallsTo("rx", rate_last.pre_rx[i].key) =
                      <<SetterCall("rx", rate_last.pre_rx[i].key, "set_tick_rate",
                                   rate_last.pre_rx[i].val.term_tick_rate),
                        SetterCall("rx", rate_last.pre_rx[i].key, "set_samp_rate",
                                   rate_last.pre_rx[i].val.term_samp_rate)>>
        /\ \A i \in LiveOn(rate_last.pre_tx, rate_last.mb_index) :
               /\ tx_streamers[i].val.tick_rate = rate_last.rate
               /\ tx_streamers[i].val.samp_rate = rate_last.rate

\* a live RX endpoint took over its terminator's rates, which differ from its
\* own earlier rates and from r, and a live TX endpoint took over r
C5_Witness ==
    /\ TickCalled
    /\ \E i \in LiveOn(rate_last.pre_rx, rate_last.mb_index) :
           /\ rate_last.pre_rx[i].val.tick_rate # rate_last.pre_rx[i].val.term_tick_rate
           /\ rx_streamers[i].val.tick_rate = rate_last.pre_rx[i].val.term_tick_rate
           /\ rx_streamers[i].val.tick_rate # rate_last.rate
    /\ \E i \in LiveOn(rate_last.pre_tx, rate_last.mb_index) :
           tx_streamers[i].val.samp_rate = rate_last.rate

Expired(d) == {i \in DOMAIN d : ~d[i].val.alive}

\* C6: an expired endpoint is skipped by update_tick_rate, by
\* update_rx_samp_rate and update_tx_samp_rate and by the sync dispatch: no
\* setter is called on it, none of its fields changes, no sync is invoked
\* for it and no error is raised, and the other entries are still processed
\* (a tick-rate update reaches every live endpoint of the motherboard, a
\* dispatch in which no sync fails reaches every live TX endpoint).
C6_ExpiredEndpointSkipped ==
    /\ rate_last.op # "none" =>
           /\ \A i \in Expired(rate_last.pre_rx) :
                  /\ rx_streamers[i] = rate_last.pre_rx[i]
                  /\ CallsTo("rx", rate_last.pre_rx[i].key) = <<>>
           /\ \A i \in Expired(rate_last.pre_tx) :
                  /\ tx_streamers[i] = rate_last.pre_tx[i]
                  /\ CallsTo("tx", rate_last.pre_tx[i].key) = <<>>
           /\ Len(rx_streamers) = Len(rate_last.pre_rx)
           /\ Len(tx_streamers) = Len(rate_last.pre_tx)
    /\ TickCalled =>
           /\ \A i \in LiveOn(rate_last.pre_rx, rate_last.mb_index) :
                  Len(CallsTo("rx", rate_last.pre_rx[i].key)) = 2
           /\ \A i \in LiveOn(rate_last.pre_tx, rate_last.mb_index) :
                  Len(CallsTo("tx", rate_last.pre_tx[i].key)) = 2
    /\ (HooksCalled /\ sync_last.is_tx) =>
           /\ \A i \in Expired(sync_last.pre_tx) : SyncsOf(i) = {}
           /\ tx_streamers = sync_last.pre_tx
           /\ sync_last.failing = {} =>
                  /\ sync_last.error = NoError
                  /\ \A i \in LivePositions(sync_last.pre_tx) : SyncsOf(i) # {}

\* a tick-rate update has skipped an expired RX endpoint of the motherboard
\* and processed a live one registered after it
C6_Witness ==
    /\ TickCalled
    /\ \E i \in Expired(rate_last.pre_rx), j \in LiveOn(rate_last.pre_rx, rate_last.mb_index) :
           /\ rate_last.pre_rx[i].key.dev = rate_last.mb_index
           /\ i < j
           /\ rx_streamers[i] = rate_last.pre_rx[i]
           /\ Len(CallsTo("rx", rate_last.pre_rx[j].key)) = 2

SampCalled == rate_last.op \in {"update_rx_samp_rate", "update_tx_samp_rate"}

\* C10: update_rx_samp_rate(mb, dspno, rate) is a no-op when no live RX
\* endpoint is registered under "Radio_<dspno>"; otherwise it sets that
\* endpoint's sample rate to rate and then its scale factor to the scaling
\* adjustment the DDC of mb.radio_perifs[dspno] holds at the time of the
\* call, and changes nothing else. update_tx_samp_rate does the same with the
\* TX endpoint and the DUC.
C10_SampRateAndFreshScale ==
    SampCalled =>
        LET rx == rate_last.op = "update_rx_samp_rate"
            dir == IF rx THEN "rx" ELSE "tx"
            pre == IF rx THEN rate_last.pre_rx ELSE rate_last.pre_tx
            now == IF rx THEN rx_streamers ELSE tx_streamers
            key == [prefixed |-> FALSE, dev |-> 0, count |-> rate_last.dspno]
            hit == {i \in DOMAIN pre : pre[i].key = key /\ pre[i].val.alive}
            perif == mb[rate_last.mb_index].radio_perifs[rate_last.dspno]
            adj == IF rx THEN perif.ddc_adj ELSE perif.duc_adj
        IN  /\ IF rx THEN tx_streamers = rate_last.pre_tx
                     ELSE rx_streamers = rate_last.pre_rx
            /\ Len(now) = Len(pre)
            /\ \A i \in DOMAIN pre : i \notin hit => now[i] = pre[i]
            /\ hit = {} => rate_last.calls = <<>>
            /\ \A i \in hit :
                   /\ now[i].key = key
                   /\ now[i].val = [pre[i].val EXCEPT !.samp_rate = rate_last.rate,
                                                      !.scale_factor = adj]
                   /\ rate_last.calls =
                          <<SetterCall(dir, key, "set_samp_rate", rate_last.rate),
                            SetterCall(dir, key, "set_scale_factor", adj)>>

\* the DDC's scaling adjustment was changed after construction and the RX
\* endpoint "Radio_<dspno>" has received the changed value
C10_Witness ==
    /\ rate_last.op = "update_rx_samp_rate"
    /\ Len(rate_last.calls) = 2
    /\ mb[rate_last.mb_index].radio_perifs[rate_last.dspno].ddc_adj = 7
    /\ \E i \in DOMAIN rx_streamers :
           /\ rx_streamers[i].key.count = rate_last.dspno
           /\ rx_streamers[i].val.scale_factor = 7
           /\ rx_streamers[i].val.samp_rate = rate_last.rate

(***************************************************************************)
(* Further properties of update_tick_rate and update_subdev_spec           *)
(***************************************************************************)
\* the entries of a dictionary snapshot whose block id names another board
OnOtherBoard(d, mb_index) == {i \in DOMAIN d : d[i].key.dev # mb_index}

\* C11: update_tick_rate(mb, r) leaves the tick rate, the sample rate and the
\* scale factor of every registered endpoint, RX or TX, whose block id
\* belongs to a motherboard other than mb unchanged, and calls no setter on
\* it.
C11_OtherBoardsUntouched ==
    TickCalled =>
        /\ \A i \in OnOtherBoard(rate_last.pre_rx, rate_last.mb_index) :
               /\ rx_streamers[i] = rate_last.pre_rx[i]
               /\ CallsTo("rx", rate_last.pre_rx[i].key) = <<>>
        /\ \A i \in OnOtherBoard(rate_last.pre_tx, rate_last.mb_index) :
               /\ tx_streamers[i] = rate_last.pre_tx[i]
               /\ CallsTo("tx", rate_last.pre_tx[i].key) = <<>>

\* a tick-rate update has changed a live TX endpoint of its motherboard and
\* has passed over a live TX endpoint of the other motherboard
C11_Witness ==
    /\ TickCalled
    /\ \E i \in OnOtherBoard(rate_last.pre_tx, rate_last.mb_index) :
           /\ rate_last.pre_tx[i].val.alive
           /\ tx_streamers[i].val.tick_rate # rate_last.rate
    /\ \E j \in LiveOn(rate_last.pre_tx, rate_last.mb_index) :
           tx_streamers[j].val.tick_rate = rate_last.rate

\* C12: a spec of length 0 or 1 never fails the pairing check; an empty spec
\* fails none of the shape checks (size, name, pairing); a spec of length 1
\* whose frontend exists passes the shape checks when its daughterboard name
\* is A or B, and a spec of length 1 with any other name is rejected with a
\* ConfigurationError.
C12_ShortSpecShape ==
    (CfgCalled /\ Len(cfg_last.spec) <= 1 /\ cfg_last.mb_i < NumMb) =>
        /\ cfg_last.check # "pairing"
        /\ Len(cfg_last.spec) = 0 => cfg_last.check \notin {"size", "name", "pairing"}
        /\ Len(cfg_last.spec) = 1 =>
               /\ cfg_last.check # "size"
               /\ ( /\ cfg_last.spec[1].db_name \in {"A", "B"}
                    /\ AllFrontendsExist(cfg_last.tx_rx, cfg_last.mb_i, cfg_last.spec) )
                      => cfg_last.check = "ok"
               /\ cfg_last.spec[1].db_name \notin {"A", "B"} =>
                      /\ cfg_last.result \in ConfigurationError
                      /\ cfg_last.calls = <<>>

\* the one-entry spec (B) has passed the checks and has been configured
C12_Witness ==
    /\ CfgCalled /\ cfg_last.result = "ok"
    /\ Len(cfg_last.spec) = 1
    /\ cfg_last.spec[1].db_name = "B"
    /\ tree[<<cfg_last.tx_rx, cfg_last.mb_i>>] = <<1>>

\* the radio a spec entry names: daughterboard slot A is radio 0, B is radio 1
NamedRadio(entry) == IF entry.db_name = "A" THEN 0 ELSE 1

NamedRadios(spec) == {NamedRadio(spec[i]) : i \in 1 .. Len(spec)}

\* the mux register a set_mux call of a unit writes
MuxField(unit) ==
    CASE unit = "ddc"   -> "ddc_mux"
      [] unit = "rx_fe" -> "rx_fe_mux"
      [] OTHER          -> "tx_fe_mux"

\* the units whose mux a direction programs, in the order of the loop body
MuxUnits(tx_rx) == IF tx_rx = "tx" THEN <<"tx_fe">> ELSE <<"ddc", "rx_fe">>

\* the mux units of one loop iteration that are not reached when the
\* hardware access at step s throws
UnitsNotReached(tx_rx, s) ==
    IF s = "rx_fe" THEN {"rx_fe"}
    ELSE {MuxUnits(tx_rx)[j] : j \in 1 .. Len(MuxUnits(tx_rx))}

HwFailed == CfgCalled /\ cfg_last.result = "hw_error"

\* C16: in every reachable state, also after a call aborted by a hardware
\* error part-way, the persisted mapping of (direction, motherboard) has the
\* length of, and is derived from, the spec from which the muxes of that
\* direction and motherboard were most recently programmed.
C16_Original ==
    (CfgCalled /\ cfg_last.calls # <<>>) =>
        LET map == tree[<<cfg_last.tx_rx, cfg_last.mb_i>>]
        IN  /\ Len(map) = Len(cfg_last.spec)
            /\ \A i \in 1 .. Len(cfg_last.spec) : map[i] = NamedRadio(cfg_last.spec[i])

\* C17: when a hardware access fails while entry i is processed, the call
\* ends in that error, the muxes of the entries before i hold their new
\* values, the failing access and everything after it (the rest of entry i
\* and all later entries) is not programmed, no set_mux call is made twice,
\* and the mapping is not persisted.
C17_PartialProgrammingNoRollback ==
    HwFailed =>
        LET c     == cfg_last
            i     == c.fail[1]
            calls == c.calls
            regs(m) == m[c.mb_i].radio_perifs
        IN  /\ tree = c.pre_tree
            /\ \A j \in 1 .. (i - 1) : \A u \in 1 .. Len(MuxUnits(c.tx_rx)) :
                   \E k \in DOMAIN calls :
                       /\ calls[k].radio = NamedRadio(c.spec[j])
                       /\ calls[k].unit = MuxUnits(c.tx_rx)[u]
                       /\ regs(mb)[calls[k].radio][MuxField(calls[k].unit)] = calls[k].args
            /\ \A unit \in UnitsNotReached(c.tx_rx, c.fail[2]) :
                   /\ \A k \in DOMAIN calls :
                          ~(calls[k].radio = NamedRadio(c.spec[i]) /\ calls[k].unit = unit)
                   /\ regs(mb)[NamedRadio(c.spec[i])][MuxField(unit)]
                          = regs(c.pre_mb)[NamedRadio(c.spec[i])][MuxField(unit)]
            /\ \A j \in (i + 1) .. Len(c.spec) :
                   /\ \A k \in DOMAIN calls : calls[k].radio # NamedRadio(c.spec[j])
                   /\ regs(mb)[NamedRadio(c.spec[j])] = regs(c.pre_mb)[NamedRadio(c.spec[j])]
            /\ \A k1, k2 \in DOMAIN calls :
                   (calls[k1].radio = calls[k2].radio /\ calls[k1].unit = calls[k2].unit)
                       => k1 = k2

\* the rx_fe write of the second entry of an RX spec has failed over a
\* mapping persisted earlier: the first entry and the DDC of the second are
\* programmed
C17_Witness ==
    /\ HwFailed
    /\ cfg_last.fail = <<2, "rx_fe">>
    /\ Len(cfg_last.calls) = 3
    /\ cfg_last.pre_tree[<<cfg_last.tx_rx, cfg_last.mb_i>>] # <<>>
    /\ mb # cfg_last.pre_mb

\* C20: a successful call changes only the mapping of its (direction,
\* motherboard) and the muxes of that direction on the radios of that
\* motherboard which the spec names; the mappings of the other direction and
\* of other motherboards, the registers of other motherboards, of radios of
\* the motherboard the spec does not name, and of the other direction on the
\* named radios keep their values.
C20_SuccessfulConfigureFrame ==
    (CfgCalled /\ cfg_last.result = "ok") =>
        LET c == cfg_last
            own == {MuxField(MuxUnits(c.tx_rx)[u]) : u \in 1 .. Len(MuxUnits(c.tx_rx))}
        IN  /\ \A k \in DOMAIN tree :
                   k # <<c.tx_rx, c.mb_i>> => tree[k] = c.pre_tree[k]
            /\ \A m \in MbIdx, r \in RadioIdx :
                   (m # c.mb_i \/ r \notin NamedRadios(c.spec)) =>
                       mb[m].radio_perifs[r] = c.pre_mb[m].radio_perifs[r]
            /\ \A r \in NamedRadios(c.spec) :
                   \A f \in DOMAIN mb[c.mb_i].radio_perifs[r] \ own :
                       mb[c.mb_i].radio_perifs[r][f] = c.pre_mb[c.mb_i].radio_perifs[r][f]

\* an RX spec (A, B) has been replaced by (A): radio B keeps the muxes the
\* first call programmed
C20_Witness ==
    /\ CfgCalled /\ cfg_last.result = "ok" /\ cfg_last.tx_rx = "rx"
    /\ Len(cfg_last.spec) = 1 /\ cfg_last.spec[1].db_name = "A"
    /\ cfg_last.pre_tree[<<"rx", cfg_last.mb_i>>] = <<0, 1>>
    /\ tree[<<"rx", cfg_last.mb_i>>] = <<0>>
    /\ mb[cfg_last.mb_i].radio_perifs[1].ddc_mux # NoMux

\* C19: update_rx_samp_rate and update_tx_samp_rate, called for motherboard
\* m and dsp index d, change no endpoint that belongs to another
\* motherboard: its sample rate and scale factor keep their values and no
\* setter is called on it, so that the DDC or DUC adjustment of one
\* motherboard is never applied to an endpoint of another.
C19_Original ==
    SampCalled =>
        /\ \A i \in OnOtherBoard(rate_last.pre_rx, rate_last.mb_index) :
               /\ rx_streamers[i] = rate_last.pre_rx[i]
               /\ CallsTo("rx", rate_last.pre_rx[i].key) = <<>>
        /\ \A i \in OnOtherBoard(rate_last.pre_tx, rate_last.mb_index) :
               /\ tx_streamers[i] = rate_last.pre_tx[i]
               /\ CallsTo("tx", rate_last.pre_tx[i].key) = <<>>

\* C14: post_streamer_hooks with is_tx = false does nothing: it calls lock()
\* on no registered endpoint, invokes no DAC synchronisation, logs nothing,
\* raises no error and leaves both streamer dictionaries as they were.
C14_RxHookIsNoOp ==
    (HooksCalled /\ ~sync_last.is_tx) =>
        /\ sync_last.locked = <<>>
        /\ sync_last.syncs = <<>>
        /\ sync_last.log = <<>>
        /\ sync_last.error = NoError
        /\ tx_streamers = sync_last.pre_tx

\* the hook has run with is_tx = false over a dictionary that holds a live
\* TX streamer whose DAC synchronisation would have failed
C14_Witness ==
    /\ HooksCalled /\ ~sync_last.is_tx
    /\ sync_last.failing # {}
    /\ \E i \in DOMAIN tx_streamers : tx_streamers[i].val.alive /\ i \in sync_last.failing

(***************************************************************************)
(* Properties of get_rx_hints                                              *)
(***************************************************************************)
RxHintsCalled == hints_last.op = "get_rx_hints"

RECURSIVE FilesIn(_, _)
\* the files under a path, through every sub-directory
FilesIn(node, path) ==
    IF node.kind = "file" THEN {path}
    ELSE UNION {FilesIn(node.children[i], Append(path, i)) : i \in DOMAIN node.children}

RECURSIVE BadFilesIn(_, _)
\* the files under a path that cannot be loaded
BadFilesIn(node, path) ==
    IF node.kind = "file" THEN (IF node.ok THEN {} ELSE {path})
    ELSE UNION {BadFilesIn(node.children[i], Append(path, i)) : i \in DOMAIN node.children}

Range(f) == {f[i] : i \in DOMAIN f}

\* C15: no exception leaves load_module_path: the static block calls it for
\* every module path, and each call attempts every file under its path,
\* reports on stderr exactly the files that failed to load, and returns
\* normally; a path that does not exist is passed over without output.
C15_Original ==
    load_last.op = "load_modules" =>
        /\ Len(load_last.path_results) = Len(module_paths)
        /\ \A k \in DOMAIN load_last.path_results :
               LET res == load_last.path_results[k]
               IN  /\ res.thrown = "none"
                   /\ Range(res.calls) = FilesIn(module_paths[k], <<k>>)
                   /\ Range(res.cerr) = BadFilesIn(module_paths[k], <<k>>)
                   /\ module_paths[k].kind = "missing" => res = LoadNone

(***************************************************************************)
(* Properties of the handlers against a concurrent drop                    *)
(***************************************************************************)
\* C18: when the owner drops its last reference while update_tick_rate,
\* update_rx_samp_rate, update_tx_samp_rate or post_streamer_hooks runs, in
\* every interleaving no member call is made on a destroyed streamer: either
\* lock() fails and the entry is passed over, or lock() succeeds and the
\* streamer stays alive until the handler's last use of it; the handler
\* keeps no reference once it has returned.
C18_NoCallOnDestroyedStreamer ==
    /\ ~use_last.destroyed
    /\ thread.pc \in {"use", "release"} =>
           thread.held /\ ~objects[thread.pos].destroyed
    /\ thread.pc \in {"idle", "lock"} => ~thread.held
    /\ \A i \in DOMAIN objects :
           (~objects[i].owner /\ ~(thread.held /\ thread.pos = i)) => objects[i].destroyed

\* the owner has dropped a streamer after the handler locked it, and the
\* handler has since made its last setter call on the still living object
C18_Witness ==
    /\ thread.pc = "release"
    /\ use_last.op = thread.op /\ use_last.pos = thread.pos
    /\ use_last.call = "set_samp_rate"
    /\ ~use_last.owned /\ ~use_last.destroyed
    /\ ~objects[thread.pos].destroyed

====
